---- MODULE Spec2Model ----
\* Null-aware expression evaluation of databend: the NullColumn and its builder
\* (common/datavalues2/src/columns/null), NullableType::create_constant_column
\* (common/datavalues2/src/types/type_nullable.rs) and ExpressionExecutor
\* (query/src/pipelines/transforms/transform_expression_executor.rs).
EXTENDS Integers, Sequences, FiniteSets, TLC

VARIABLES
    \* ---- ExpressionExecutor: the executor's fields and the batch it is run on
    block,             \* input DataBlock: column name -> column
    rows,              \* block.num_rows()
    chain,             \* self.chain.actions
    output_schema,     \* self.output_schema, as its field names in order
    alias_project,     \* self.alias_project
    \* ---- ExpressionExecutor::execute: locals of one call
    pc,                \* "chain" | "alias" | "project" | "done" | "idle"
    idx,               \* position of the chain loop (1-based)
    column_map,        \* HashMap<&str, DataColumnWithField>
    alias_map,         \* HashMap<&str, &DataColumnWithField>
    alias_action_map,  \* HashMap<&str, Vec<&str>>
    visited,           \* keys of alias_action_map the alias loop has visited
    result,            \* what execute returned
    evals,             \* history: every invocation of f.func.eval
    \* ---- MutableNullColumn
    builder_length,    \* MutableNullColumn.length
    appended,          \* history: rows appended since the last finish, by kind
    finished,          \* history: the last finish() and what had been appended
    \* ---- NullColumn
    null_column,       \* the current NullColumn (its length), or a panic
    null_op,           \* history: the last call on it and its arguments
    \* ---- NullableType
    constant_call,     \* the last create_constant_column call's arguments
    constant_column    \* and what it returned

execVars == <<block, rows, chain, output_schema, alias_project, pc, idx, column_map,
              alias_map, alias_action_map, visited, result, evals>>
builderVars == <<builder_length, appended, finished>>
nullVars == <<null_column, null_op>>
typeVars == <<constant_call, constant_column>>
vars == <<execVars, builderVars, nullVars, typeVars>>

\* ------------------------------------------------------------------ bounds

\* Largest row count of an input block in the null-masking family.
MaxRows == 3
\* Longest expression chain.
MaxChain == 3
\* Most rows appended to a MutableNullColumn between two finish() calls.
MaxAppend == 4
\* Longest NullColumn, and the largest offset of a replicate call.
MaxLen == 9
\* Longest NullColumn that replicate is called on.
MaxReplicate == 4
\* Largest size asked of create_constant_column.
MaxSize == 7

\* ------------------------------------------------------------------ helpers

Range(s) == {s[i] : i \in DOMAIN s}

\* The empty HashMap.
EmptyMap == [n \in {} |-> 0]

\* HashMap::insert.
Insert(m, k, v) == [n \in (DOMAIN m) \cup {k} |-> IF n = k THEN v ELSE m[n]]

\* Every validity of a column of r rows: entry i says row i is valid (non-null).
Validities(r) == [1..r -> BOOLEAN]

AllValid(r) == [i \in 1..r |-> TRUE]

NoneValid(r) == [i \in 1..r |-> FALSE]

\* ------------------------------------------------------------------ columns

\* A DataColumn: an array with one validity entry per row, or DataColumn::Constant.
ArrayColumn(data, type, validity) ==
    [kind |-> "Array", data |-> data, type |-> type, validity |-> validity]

\* DataColumn::Constant(value, rows); a null value makes every row null.
ConstantColumn(value, type, r) ==
    [kind |-> "Constant", data |-> value, type |-> type,
     validity |-> IF value = "NULL" THEN NoneValid(r) ELSE AllValid(r)]

\* DataColumnWithField::new(column, DataField::new(name, type, nullable)).
WithField(column, name, type, nullable) ==
    [column |-> column, field |-> [name |-> name, type |-> type, nullable |-> nullable]]

\* DataColumn::get_validity.
get_validity(col) == col.validity

\* Validity::all_null: no row is valid.
all_null(validity) == \A i \in DOMAIN validity : ~validity[i]

\* DataColumn::apply_validities: the column's validity intersected with each given one.
apply_validities(col, validities) ==
    [col EXCEPT !.validity =
        [i \in DOMAIN col.validity |->
            col.validity[i] /\ \A j \in DOMAIN validities : validities[j][i]]]

\* ------------------------------------------------------------------ errors

ArgsNotPreparedFunction ==
    [code |-> "LogicalError", msg |-> "Arguments must be prepared before function transform"]

ArgsNotPreparedAlias ==
    [code |-> "LogicalError", msg |-> "Arguments must be prepared before alias transform"]

DuplicateAlias == [code |-> "UnImplement", msg |-> "Duplicate alias name"]

ProjectionMissing == [code |-> "LogicalError", msg |-> "Projection column not exists"]

\* DataBlock::try_column_by_name on a name the block does not hold.
ColumnNotFound == [code |-> "IllegalDataType", msg |-> "Cannot find column"]

\* An error of the evaluator itself, propagated by `?`.
EvalFailed == [code |-> "BadArguments", msg |-> "function evaluation failed"]

\* ------------------------------------------------------------------ actions of a chain

InputAction(name) == [kind |-> "Input", name |-> name]

FunctionAction(name, arg_names, is_nullable, passthrough_null) ==
    [kind |-> "Function", name |-> name, arg_names |-> arg_names,
     is_nullable |-> is_nullable, passthrough_null |-> passthrough_null,
     return_type |-> "Int64"]

ConstantAction(name, value) ==
    [kind |-> "Constant", name |-> name, value |-> value, data_type |-> "Int32"]

AliasAction(name, arg_name) == [kind |-> "Alias", name |-> name, arg_name |-> arg_name]

\* ExpressionAction::column_name.
column_name(action) == action.name

\* What one call of an evaluator can do: fail, or return a column of `r` rows with
\* any validity.
EvalOutcomes(r) ==
    {[ok |-> FALSE, validity |-> <<>>]} \cup {[ok |-> TRUE, validity |-> v] : v \in Validities(r)}

\* f.func.eval(&arg_columns, rows) with the outcome `out`.
EvalColumn(f, out) == ArrayColumn(f.name, f.return_type, out.validity)

\* ------------------------------------------------------------------ execute_function

NoError == [code |-> "", msg |-> ""]

NoColumn == WithField(ArrayColumn("", "", <<>>), "", "", FALSE)

\* The resolved argument columns, in the order of f.arg_names.
ArgColumns(cm, f) == [i \in DOMAIN f.arg_names |-> cm[f.arg_names[i]]]

\* Lines 195-201: the validity of each argument column.
ArgValidities(cm, f) ==
    [i \in DOMAIN f.arg_names |-> get_validity(ArgColumns(cm, f)[i].column)]

\* Lines 220-223: execute_function's Ok result. `invoked` says whether f.func.eval
\* was called, `args` with what.
FunctionOk(cm, f, column, invoked) ==
    [ok |-> TRUE, value |-> WithField(column, f.name, f.return_type, f.is_nullable),
     error |-> NoError, invoked |-> invoked,
     args |-> IF invoked THEN ArgColumns(cm, f) ELSE <<>>]

\* execute_function's Err result, by `?`.
FunctionErr(error, invoked, args) ==
    [ok |-> FALSE, value |-> NoColumn, error |-> error, invoked |-> invoked, args |-> args]

\* execute_function without the test for an entirely null argument.
execute_function_always_evaluating(cm, f, r, out) ==
    IF \E i \in DOMAIN f.arg_names : f.arg_names[i] \notin DOMAIN cm
    THEN FunctionErr(ArgsNotPreparedFunction, FALSE, <<>>)
    ELSE IF ~out.ok THEN FunctionErr(EvalFailed, TRUE, ArgColumns(cm, f))
    ELSE IF f.is_nullable /\ f.passthrough_null
    THEN FunctionOk(cm, f, apply_validities(EvalColumn(f, out), ArgValidities(cm, f)), TRUE)
    ELSE FunctionOk(cm, f, EvalColumn(f, out), TRUE)

\* execute_function masking the result with its first argument's validity alone.
execute_function_masking_first(cm, f, r, out) ==
    IF \E i \in DOMAIN f.arg_names : f.arg_names[i] \notin DOMAIN cm
    THEN FunctionErr(ArgsNotPreparedFunction, FALSE, <<>>)
    ELSE IF f.is_nullable /\ f.passthrough_null
    THEN IF \E i \in DOMAIN f.arg_names : all_null(ArgValidities(cm, f)[i])
         THEN FunctionOk(cm, f, ConstantColumn("NULL", f.return_type, r), FALSE)
         ELSE IF out.ok
              THEN FunctionOk(cm, f,
                      apply_validities(EvalColumn(f, out),
                                       SubSeq(ArgValidities(cm, f), 1, 1)), TRUE)
              ELSE FunctionErr(EvalFailed, TRUE, ArgColumns(cm, f))
    ELSE IF out.ok THEN FunctionOk(cm, f, EvalColumn(f, out), TRUE)
         ELSE FunctionErr(EvalFailed, TRUE, ArgColumns(cm, f))

\* execute_function applying the null pass-through whatever the function's flags.
execute_function_always_masking(cm, f, r, out) ==
    IF \E i \in DOMAIN f.arg_names : f.arg_names[i] \notin DOMAIN cm
    THEN FunctionErr(ArgsNotPreparedFunction, FALSE, <<>>)
    ELSE IF \E i \in DOMAIN f.arg_names : all_null(ArgValidities(cm, f)[i])
    THEN FunctionOk(cm, f, ConstantColumn("NULL", f.return_type, r), FALSE)
    ELSE IF out.ok
    THEN FunctionOk(cm, f, apply_validities(EvalColumn(f, out), ArgValidities(cm, f)), TRUE)
    ELSE FunctionErr(EvalFailed, TRUE, ArgColumns(cm, f))

\* ExpressionExecutor::execute_function, the evaluator's outcome being `out`.
execute_function(cm, f, r, out) ==
    IF \E i \in DOMAIN f.arg_names : f.arg_names[i] \notin DOMAIN cm
    THEN FunctionErr(ArgsNotPreparedFunction, FALSE, <<>>)
    ELSE IF f.is_nullable /\ f.passthrough_null
    THEN IF \E i \in DOMAIN f.arg_names : all_null(ArgValidities(cm, f)[i])
         THEN FunctionOk(cm, f, ConstantColumn("NULL", f.return_type, r), FALSE)
         ELSE IF out.ok
              THEN FunctionOk(cm, f,
                      apply_validities(EvalColumn(f, out), ArgValidities(cm, f)), TRUE)
              ELSE FunctionErr(EvalFailed, TRUE, ArgColumns(cm, f))
    ELSE IF out.ok THEN FunctionOk(cm, f, EvalColumn(f, out), TRUE)
         ELSE FunctionErr(EvalFailed, TRUE, ArgColumns(cm, f))

\* ------------------------------------------------------------------ execute

NoResult == [status |-> "none", error |-> NoError, columns |-> <<>>]

Err(e) == [status |-> "err", error |-> e, columns |-> <<>>]

Ok(columns) == [status |-> "ok", error |-> NoError, columns |-> columns]

\* Lines 92-98: an Alias action is recorded under its source name, in chain order.
RecordAlias(aam, action) ==
    IF action.kind = "Alias"
    THEN IF action.arg_name \in DOMAIN aam
         THEN [aam EXCEPT ![action.arg_name] = Append(@, action.name)]
         ELSE Insert(aam, action.arg_name, <<action.name>>)
    ELSE aam

\* Where execute goes once the chain loop has handled action i - 1.
PhaseAfter(i, aam) ==
    IF i <= Len(chain) THEN "chain"
    ELSE IF alias_project /\ DOMAIN aam # {} THEN "alias" ELSE "project"

\* Lines 84-88: the working map is seeded with every column of the input block.
SeedColumns(b) == [n \in DOMAIN b |-> WithField(b[n], n, b[n].type, TRUE)]

\* execute is entered: the maps are created and the working map is seeded.
Begin ==
    /\ pc = "idle"
    /\ column_map' = SeedColumns(block)
    /\ alias_map' = EmptyMap
    /\ alias_action_map' = EmptyMap
    /\ idx' = 1
    /\ pc' = PhaseAfter(1, EmptyMap)
    /\ UNCHANGED <<block, rows, chain, output_schema, alias_project, visited, result, evals>>

\* What the chain loop's `match action` does to the working map `cm`, the
\* evaluator's outcome being `out` (lines 104-132); `call` is the evaluator's
\* invocation, if any.
MatchAction(cm, action, out) ==
    LET keep == [ok |-> TRUE, column_map |-> cm, error |-> NoError, call |-> <<>>]
    IN  CASE action.kind = "Input" ->
                IF action.name \in DOMAIN block
                THEN [keep EXCEPT !.column_map =
                        Insert(cm, action.name,
                               WithField(block[action.name], action.name,
                                         block[action.name].type, TRUE))]
                ELSE [keep EXCEPT !.ok = FALSE, !.error = ColumnNotFound]
          [] action.kind = "Function" ->
                LET r == execute_function(cm, action, rows, out)
                    call == IF r.invoked
                            THEN <<[f |-> action, args |-> r.args, out |-> out]>>
                            ELSE <<>>
                IN  IF r.ok
                    THEN [keep EXCEPT !.column_map = Insert(cm, action.name, r.value),
                                      !.call = call]
                    ELSE [keep EXCEPT !.ok = FALSE, !.error = r.error, !.call = call]
          [] action.kind = "Constant" ->
                [keep EXCEPT !.column_map =
                    Insert(cm, action.name,
                           WithField(ConstantColumn(action.value, action.data_type, rows),
                                     action.name, action.data_type,
                                     action.value = "NULL"))]
          [] OTHER -> keep

\* The chain loop's body without the test of lines 100-102.
ChainAction_never_skipping(cm, action, out) == MatchAction(cm, action, out)

\* The chain loop's body after the alias is recorded (lines 100-132): an action
\* whose name the working map holds is skipped.
ChainAction(cm, action, out) ==
    IF column_name(action) \in DOMAIN cm
    THEN [ok |-> TRUE, column_map |-> cm, error |-> NoError, call |-> <<>>]
    ELSE MatchAction(cm, action, out)

\* One iteration of `for action in self.chain.actions.iter()`.
ChainStep ==
    /\ pc = "chain"
    /\ \E out \in EvalOutcomes(rows) :
        LET action == chain[idx]
            aam == RecordAlias(alias_action_map, action)
            r == ChainAction(column_map, action, out)
        IN  /\ alias_action_map' = aam
            /\ evals' = evals \o r.call
            /\ column_map' = r.column_map
            /\ IF r.ok
               THEN /\ idx' = idx + 1
                    /\ pc' = PhaseAfter(idx + 1, aam)
                    /\ result' = result
               ELSE /\ idx' = idx
                    /\ pc' = "done"
                    /\ result' = Err(r.error)
    /\ UNCHANGED <<block, rows, chain, output_schema, alias_project, alias_map, visited>>

\* The registration of a source's targets without the test for a duplicate.
InsertTargets_overwriting(am, column, v, i) ==
    [ok |-> TRUE,
     alias_map |-> [n \in (DOMAIN am) \cup Range(v) |-> IF n \in Range(v) THEN column ELSE am[n]],
     error |-> NoError]

\* Lines 141-149: the source's column is registered under each of its targets `v`,
\* from position i on; a target already registered is an error.
RECURSIVE InsertTargets(_, _, _, _)
InsertTargets(am, column, v, i) ==
    IF i > Len(v) THEN [ok |-> TRUE, alias_map |-> am, error |-> NoError]
    ELSE IF v[i] \in DOMAIN am
         THEN [ok |-> FALSE, alias_map |-> Insert(am, v[i], column), error |-> DuplicateAlias]
         ELSE InsertTargets(Insert(am, v[i], column), column, v, i + 1)

\* One iteration of the alias loop that passes over a source without a column.
VisitAlias_ignoring_missing(cm, aam, am, k) ==
    IF k \notin DOMAIN cm
    THEN [ok |-> TRUE, alias_map |-> am, error |-> NoError]
    ELSE InsertTargets(am, cm[k], aam[k], 1)

\* Lines 137-149: one iteration of `for (k, v) in alias_action_map.iter()`.
VisitAlias(cm, aam, am, k) ==
    IF k \notin DOMAIN cm
    THEN [ok |-> FALSE, alias_map |-> am, error |-> ArgsNotPreparedAlias]
    ELSE InsertTargets(am, cm[k], aam[k], 1)

RECURSIVE AliasLoop(_, _, _, _)
\* Lines 136-150: the whole alias loop, were it to visit the sources in `order`.
AliasLoop(cm, aam, am, order) ==
    IF order = <<>> THEN [ok |-> TRUE, alias_map |-> am, error |-> NoError]
    ELSE LET r == VisitAlias(cm, aam, am, Head(order))
         IN  IF r.ok THEN AliasLoop(cm, aam, r.alias_map, Tail(order)) ELSE r

\* The orders in which an iteration over a HashMap with the keys S can visit them.
Orders(S) == {o \in [1..Cardinality(S) -> S] : Range(o) = S}

\* The alias loop visits the keys of a HashMap: in an order the program does not fix.
AliasStep ==
    /\ pc = "alias"
    /\ \E k \in DOMAIN alias_action_map \ visited :
        LET r == VisitAlias(column_map, alias_action_map, alias_map, k)
        IN  /\ alias_map' = r.alias_map
            /\ visited' = visited \cup {k}
            /\ IF r.ok
               THEN /\ pc' = IF visited \cup {k} = DOMAIN alias_action_map
                             THEN "project" ELSE "alias"
                    /\ result' = result
               ELSE /\ pc' = "done"
                    /\ result' = Err(r.error)
    /\ UNCHANGED <<block, rows, chain, output_schema, alias_project, idx, column_map,
                   alias_action_map, evals>>

\* The column of one output field, the working map looked up first.
ProjectColumn_preferring_computed(am, cm, name) ==
    IF name \in DOMAIN cm THEN cm[name] ELSE am[name]

\* Lines 155-164: the column of one output field.
ProjectColumn(am, cm, name) == IF name \in DOMAIN am THEN am[name] ELSE cm[name]

\* Lines 153-171: the projection to the output schema.
Projection(am, cm) ==
    IF \E i \in DOMAIN output_schema :
          output_schema[i] \notin (DOMAIN am) \cup (DOMAIN cm)
    THEN Err(ProjectionMissing)
    ELSE Ok([i \in DOMAIN output_schema |-> ProjectColumn(am, cm, output_schema[i]).column])

\* The last step of execute: the projection, and its return.
Project ==
    /\ pc = "project"
    /\ pc' = "done"
    /\ result' = Projection(alias_map, column_map)
    /\ UNCHANGED <<block, rows, chain, output_schema, alias_project, idx, column_map,
                   alias_map, alias_action_map, visited, evals>>

\* ------------------------------------------------------------------ the inputs

RECURSIVE SeqsUpTo(_, _)
\* The sequences over S of length 1..n.
SeqsUpTo(S, n) ==
    IF n = 0 THEN {}
    ELSE SeqsUpTo(S, n - 1) \cup [1..n -> S]

\* Null masking: a block of two columns a, b of 0..MaxRows rows with any
\* validities, and one function of two arguments with any flags, its second
\* argument a block column or a constant.
MaskBlocks ==
    UNION {{[n \in {"a", "b"} |-> ArrayColumn(n, "Int32", IF n = "a" THEN va ELSE vb)] :
              va \in Validities(r), vb \in Validities(r)} : r \in 0..MaxRows}

MaskChains ==
    {<<FunctionAction("f", <<"a", "b">>, n, p)>> : n \in BOOLEAN, p \in BOOLEAN}
    \cup {<<ConstantAction("c", v), FunctionAction("f", <<"a", "c">>, n, p)>> :
            v \in {"NULL", "1"}, n \in BOOLEAN, p \in BOOLEAN}

MaskInputs ==
    {[block |-> b, chain |-> c, output_schema |-> <<"f">>, alias_project |-> FALSE] :
        b \in MaskBlocks, c \in MaskChains}

\* Chains and projection: a block of one column a, every chain of 1..MaxChain
\* actions of ChainPool (m is in no block, f and g are computed or not), every
\* output schema of one field or of two different fields of OutNames.
ChainBlock == [n \in {"a"} |-> ArrayColumn("a", "Int32", <<TRUE>>)]

ChainPool ==
    {InputAction("a"), InputAction("m"),
     FunctionAction("f", <<"a">>, TRUE, TRUE), FunctionAction("g", <<"f">>, TRUE, TRUE),
     ConstantAction("a", "1"),
     AliasAction("y", "f"), AliasAction("z", "f"), AliasAction("y", "a"),
     AliasAction("a", "f")}

OutNames == {"a", "f", "y", "z"}

Schemas ==
    {<<n>> : n \in OutNames}
    \cup {s \in {<<n, m>> : n \in OutNames, m \in OutNames} : s[1] # s[2]}

ChainInputs ==
    {[block |-> ChainBlock, chain |-> c, output_schema |-> s, alias_project |-> p] :
        c \in SeqsUpTo(ChainPool, MaxChain), s \in Schemas, p \in BOOLEAN}

ExecIdle ==
    /\ block = EmptyMap /\ rows = 0 /\ chain = <<>> /\ output_schema = <<>>
    /\ alias_project = FALSE /\ pc = "off" /\ idx = 0 /\ column_map = EmptyMap
    /\ alias_map = EmptyMap /\ alias_action_map = EmptyMap /\ visited = {}
    /\ result = NoResult /\ evals = <<>>

BuilderIdle == builder_length = 0 /\ appended = [null |-> 0, default |-> 0]
               /\ finished = [called |-> FALSE, length |-> 0, null |-> 0, default |-> 0]

NullIdle == null_column = [status |-> "none", length |-> 0]
            /\ null_op = [op |-> "none", offset |-> 0, length |-> 0, offsets |-> <<>>]

TypeIdle == constant_call = [inner |-> "", value |-> "", size |-> 0]
            /\ constant_column =
                [status |-> "none", kind |-> "", length |-> 0, has_bitmap |-> FALSE,
                 bitmap |-> <<>>, inner |-> <<>>, error |-> ""]

\* DataBlock::num_rows: the length of the block's columns.
NumRows(b) == Len(b["a"].validity)

\* An executor built over one of the inputs, about to be run on its block.
ExecInit ==
    /\ \E in \in MaskInputs \cup ChainInputs :
        /\ block = in.block
        /\ rows = NumRows(in.block)
        /\ chain = in.chain
        /\ output_schema = in.output_schema
        /\ alias_project = in.alias_project
    /\ pc = "idle" /\ idx = 0 /\ column_map = EmptyMap
    /\ alias_map = EmptyMap /\ alias_action_map = EmptyMap /\ visited = {}
    /\ result = NoResult /\ evals = <<>>

Init == ExecInit /\ BuilderIdle /\ NullIdle /\ TypeIdle

Next ==
    \/ Begin /\ UNCHANGED <<builderVars, nullVars, typeVars>>
    \/ ChainStep /\ UNCHANGED <<builderVars, nullVars, typeVars>>
    \/ AliasStep /\ UNCHANGED <<builderVars, nullVars, typeVars>>
    \/ Project /\ UNCHANGED <<builderVars, nullVars, typeVars>>

Spec == Init /\ [][Next]_vars

\* ------------------------------------------------------------------ MutableNullColumn

\* MutableNullColumn::default().
BuilderInit ==
    /\ builder_length = 0
    /\ appended = [null |-> 0, default |-> 0]
    /\ finished = [called |-> FALSE, length |-> 0, null |-> 0, default |-> 0]

\* MutableNullColumn::append_null.
append_null ==
    /\ appended.null + appended.default < MaxAppend
    /\ builder_length' = builder_length + 1
    /\ appended' = [appended EXCEPT !.null = @ + 1]
    /\ UNCHANGED finished

\* MutableNullColumn::append_default.
append_default ==
    /\ appended.null + appended.default < MaxAppend
    /\ builder_length' = builder_length + 1
    /\ appended' = [appended EXCEPT !.default = @ + 1]
    /\ UNCHANGED finished

\* MutableNullColumn::finish: self.length = 0, then NullColumn { length: self.length }.
\* The history notes the returned column's length beside what had been appended.
finish ==
    LET length1 == 0
    IN  /\ builder_length' = length1
        /\ finished' = [called |-> TRUE, length |-> length1,
                        null |-> appended.null, default |-> appended.default]
        /\ appended' = [null |-> 0, default |-> 0]

\* MutableNullColumn::as_column: Arc::new(self.finish()).
as_column == finish

BuilderNext ==
    \/ append_null /\ UNCHANGED <<execVars, nullVars, typeVars>>
    \/ append_default /\ UNCHANGED <<execVars, nullVars, typeVars>>
    \/ finish /\ UNCHANGED <<execVars, nullVars, typeVars>>
    \/ as_column /\ UNCHANGED <<execVars, nullVars, typeVars>>

InitBuilder == ExecIdle /\ BuilderInit /\ NullIdle /\ TypeIdle

SpecBuilder == InitBuilder /\ [][BuilderNext]_vars

\* ------------------------------------------------------------------ NullColumn

\* Column::len.
len(col) == col.length

\* Column::null_at.
null_at(col, row) == TRUE

\* Column::only_null.
only_null(col) == TRUE

NoOp == [op |-> "none", offset |-> 0, length |-> 0, offsets |-> <<>>]

RECURSIVE NonDecreasing(_, _, _)
\* The non-decreasing sequences of n offsets in lo..hi.
NonDecreasing(n, lo, hi) ==
    IF n = 0 THEN {<<>>}
    ELSE UNION {{<<first>> \o rest : rest \in NonDecreasing(n - 1, first, hi)} :
                  first \in lo..hi}

\* NullColumn::new(length).
NullColumnNew(length) ==
    /\ null_column' = [status |-> "ok", length |-> length]
    /\ null_op' = [NoOp EXCEPT !.op = "new", !.length = length]

\* Column::slice(offset, length) of NullColumn, with offset + length within bounds.
slice(offset, length) ==
    /\ null_column.status = "ok"
    /\ offset + length <= len(null_column)
    /\ null_column' = [status |-> "ok", length |-> length]
    /\ null_op' = [NoOp EXCEPT !.op = "slice", !.offset = offset, !.length = length]

\* Column::replicate(offsets) of NullColumn: offsets.last().unwrap() panics when
\* offsets is empty.
replicate(offsets) ==
    /\ null_column.status = "ok"
    /\ Len(offsets) = len(null_column)
    /\ null_column' =
        IF Len(offsets) = 0 THEN [status |-> "panic", length |-> 0]
        ELSE [status |-> "ok", length |-> offsets[Len(offsets)]]
    /\ null_op' = [NoOp EXCEPT !.op = "replicate", !.offsets = offsets]

NullNext ==
    \/ \E n \in 0..MaxLen : NullColumnNew(n) /\ UNCHANGED <<execVars, builderVars, typeVars>>
    \/ \E offset \in 0..MaxLen, length \in 0..MaxLen :
         slice(offset, length) /\ UNCHANGED <<execVars, builderVars, typeVars>>
    \/ /\ len(null_column) <= MaxReplicate
       /\ \E offsets \in NonDecreasing(len(null_column), 0, MaxLen) : replicate(offsets)
       /\ UNCHANGED <<execVars, builderVars, typeVars>>

InitNullColumn == ExecIdle /\ BuilderIdle /\ NullIdle /\ TypeIdle

SpecNullColumn == InitNullColumn /\ [][NullNext]_vars

\* ------------------------------------------------------------------ NullableType

\* The inner types a NullableType is created over, by data_type_id.
InnerTypes == {"Null", "Int32", "Boolean", "String"}

\* DataValues: Null and values of the inner types.
DataValues == {"NULL", "1", "2", "true", "abc"}

\* DataValue::is_null.
is_null(data) == data = "NULL"

\* DataType::default_value of an inner type.
default_value(inner) ==
    CASE inner = "Int32" -> "0"
      [] inner = "Boolean" -> "false"
      [] inner = "String" -> ""
      [] OTHER -> "NULL"

\* The type a value belongs to.
ValueType(data) ==
    CASE data \in {"0", "1", "2"} -> "Int32"
      [] data \in {"true", "false"} -> "Boolean"
      [] data \in {"", "abc"} -> "String"
      [] OTHER -> "Null"

NoConstant == [status |-> "none", kind |-> "", length |-> 0, has_bitmap |-> FALSE,
               bitmap |-> <<>>, inner |-> <<>>, error |-> ""]

\* The inner type's create_constant_column: `size` copies of the value, or the
\* inner type's error for a value that is not of the type.
InnerConstantColumn(inner, data, size) ==
    IF ValueType(data) = inner
    THEN [ok |-> TRUE, column |-> [i \in 1..size |-> data], error |-> ""]
    ELSE [ok |-> FALSE, column |-> <<>>, error |-> "BadDataValueType"]

\* MutableBitmap::extend_constant(size, value) on an empty bitmap.
extend_constant(size, value) == [i \in 1..size |-> value]

\* create_constant_column with the nesting rejection tested first.
create_constant_column_rejecting(inner, data, size) ==
    IF inner = "Null"
    THEN [NoConstant EXCEPT !.status = "err",
             !.error = "Nullable type can't be inside nullable type"]
    ELSE [NoConstant EXCEPT !.status = "ok", !.kind = "NullColumn", !.length = size]

\* create_constant_column with a bitmap of one entry, whatever the size.
create_constant_column_one_bit(inner, data, size) ==
    IF inner = "Null"
    THEN [NoConstant EXCEPT !.status = "ok", !.kind = "NullColumn", !.length = size]
    ELSE LET bitmap == extend_constant(1, ~is_null(data))
             data1 == IF is_null(data) THEN default_value(inner) ELSE data
             column == InnerConstantColumn(inner, data1, size)
         IN  IF column.ok
             THEN [NoConstant EXCEPT !.status = "ok", !.kind = "NullableColumn",
                      !.length = Len(column.column), !.has_bitmap = TRUE,
                      !.bitmap = bitmap, !.inner = column.column]
             ELSE [NoConstant EXCEPT !.status = "err", !.error = column.error]

\* NullableType::create_constant_column(data, size), the inner type being `inner`.
create_constant_column(inner, data, size) ==
    IF inner = "Null"
    THEN [NoConstant EXCEPT !.status = "ok", !.kind = "NullColumn", !.length = size]
    ELSE IF inner = "Null"
    THEN [NoConstant EXCEPT !.status = "err",
             !.error = "Nullable type can't be inside nullable type"]
    ELSE LET bitmap == extend_constant(size, ~is_null(data))
             data1 == IF is_null(data) THEN default_value(inner) ELSE data
             column == InnerConstantColumn(inner, data1, size)
         IN  IF column.ok
             THEN [NoConstant EXCEPT !.status = "ok", !.kind = "NullableColumn",
                      !.length = Len(column.column), !.has_bitmap = TRUE,
                      !.bitmap = bitmap, !.inner = column.column]
             ELSE [NoConstant EXCEPT !.status = "err", !.error = column.error]

\* A call of create_constant_column on a NullableType over `inner`.
CreateConstantColumn(inner, data, size) ==
    /\ constant_call' = [inner |-> inner, value |-> data, size |-> size]
    /\ constant_column' = create_constant_column(inner, data, size)

TypeNext ==
    \E inner \in InnerTypes, data \in DataValues, size \in 0..MaxSize :
        CreateConstantColumn(inner, data, size) /\ UNCHANGED <<execVars, builderVars, nullVars>>

InitNullableType == ExecIdle /\ BuilderIdle /\ NullIdle /\ TypeIdle

SpecNullableType == InitNullableType /\ [][TypeNext]_vars


\* ================================================================== claims

\* ------------------------------------------------------------------ C1
\* C1: finish() returns a NullColumn with as many rows as were appended since the
\* last finish (append_null and append_default together), and the builder's own
\* length is the number of rows appended in the current round, so 0 after finish.
C1_FinishYieldsAppendedRows ==
    /\ builder_length = appended.null + appended.default
    /\ finished.called => finished.length = finished.null + finished.default

\* ------------------------------------------------------------------ C9
\* C9: every slice (valid bounds) and every replicate (non-decreasing offsets, one
\* per row) of a NullColumn of any length >= 0 returns a column; it is all-null, of
\* the requested slice length, respectively of the last offset.
C9_SliceReplicateReturnAllNull ==
    null_op.op # "none" =>
        /\ null_column.status = "ok"
        /\ only_null(null_column)
        /\ \A i \in 0..(len(null_column) - 1) : null_at(null_column, i)
        /\ null_op.op \in {"new", "slice"} => len(null_column) = null_op.length
        /\ (null_op.op = "replicate" /\ null_op.offsets # <<>>) =>
              len(null_column) = null_op.offsets[Len(null_op.offsets)]

\* ------------------------------------------------------------------ C10
\* C10: over the inner type Null, create_constant_column(value, size) returns, for
\* every value and size, a NullColumn of length size without a validity bitmap, and
\* no error.
C10_NullInnerGivesNullColumn ==
    constant_call.inner = "Null" =>
        /\ constant_column.status = "ok"
        /\ constant_column.kind = "NullColumn"
        /\ constant_column.length = constant_call.size
        /\ ~constant_column.has_bitmap

\* A non-null value and size 5 over the inner type Null gave a NullColumn of 5 rows.
C10_Witness ==
    /\ constant_call = [inner |-> "Null", value |-> "1", size |-> 5]
    /\ constant_column.kind = "NullColumn"
    /\ constant_column.length = 5


\* ------------------------------------------------------------------ the executor's claims

\* The positions of the chain's Alias actions that assign the name `name`.
AliasesOf(name) ==
    {p \in DOMAIN chain : chain[p].kind = "Alias" /\ chain[p].name = name}

\* Two Alias actions of the chain assign the same target name.
DuplicateTarget ==
    \E p \in DOMAIN chain, q \in DOMAIN chain :
        /\ p # q
        /\ chain[p].kind = "Alias" /\ chain[q].kind = "Alias"
        /\ chain[p].name = chain[q].name

\* The chain loop has handled every action without an error.
ChainLoopDone == pc \in {"alias", "project", "done"} /\ idx > Len(chain)

\* ------------------------------------------------------------------ C2
\* C2: for an is_nullable function whose evaluator passes null through, invoked
\* with no argument column entirely null, the stored column is valid at row i
\* exactly when the evaluator's raw result is valid at i and every argument is.
C2_NullMasking ==
    \A k \in DOMAIN evals :
        LET f == evals[k].f
            raw == evals[k].out
            arg(j) == column_map[f.arg_names[j]].column
        IN  (/\ f.is_nullable /\ f.passthrough_null
             /\ raw.ok
             /\ \A j \in DOMAIN f.arg_names : \E i \in 1..rows : arg(j).validity[i])
            => /\ f.name \in DOMAIN column_map
               /\ column_map[f.name].column.validity =
                    [i \in 1..rows |->
                        raw.validity[i] /\ \A j \in DOMAIN f.arg_names : arg(j).validity[i]]

\* An argument with validity [true,false,true], a fully valid raw result, and the
\* stored validity [true,false,true].
C2_Witness ==
    /\ evals # <<>>
    /\ evals[1].f.is_nullable /\ evals[1].f.passthrough_null
    /\ evals[1].out = [ok |-> TRUE, validity |-> <<TRUE, TRUE, TRUE>>]
    /\ column_map["a"].column.validity = <<TRUE, FALSE, TRUE>>
    /\ column_map["b"].column.validity = <<TRUE, TRUE, TRUE>>
    /\ "f" \in DOMAIN column_map
    /\ column_map["f"].column.validity = <<TRUE, FALSE, TRUE>>

\* ------------------------------------------------------------------ C3
\* C3: when the chain loop reaches an is_nullable, passthrough-null function one
\* of whose argument columns is entirely null, that step invokes no evaluator and
\* stores a constant all-null column of the return type, one row per block row.
C3_AllNullShortCircuit ==
    [][(/\ pc = "chain"
        /\ chain[idx].kind = "Function"
        /\ chain[idx].is_nullable /\ chain[idx].passthrough_null
        /\ chain[idx].name \notin DOMAIN column_map
        /\ \A j \in DOMAIN chain[idx].arg_names :
              chain[idx].arg_names[j] \in DOMAIN column_map
        /\ \E j \in DOMAIN chain[idx].arg_names :
              \A i \in 1..rows : ~column_map[chain[idx].arg_names[j]].column.validity[i])
       => /\ evals' = evals
          /\ chain[idx].name \in DOMAIN column_map'
          /\ column_map'[chain[idx].name].column =
                [kind |-> "Constant", data |-> "NULL", type |-> chain[idx].return_type,
                 validity |-> [i \in 1..rows |-> FALSE]]
          /\ Len(column_map'[chain[idx].name].column.validity) = rows]_vars

\* A block of 2 rows whose column b is entirely null: f was stored as a constant
\* null column and no evaluator ran.
C3_Witness ==
    /\ rows = 2
    /\ chain = <<FunctionAction("f", <<"a", "b">>, TRUE, TRUE)>>
    /\ block["a"].validity = <<TRUE, TRUE>>
    /\ block["b"].validity = <<FALSE, FALSE>>
    /\ "f" \in DOMAIN column_map
    /\ column_map["f"].column.kind = "Constant"
    /\ evals = <<>>
    /\ result.status = "ok"

\* ------------------------------------------------------------------ C4
\* C4: a successful execute returns one column per output field, in order: the
\* column of the alias source when alias_project holds and an Alias action assigns
\* the field's name, and the working map's column of that name otherwise.
C4_ProjectionPrefersAlias ==
    result.status = "ok" =>
        /\ Len(result.columns) = Len(output_schema)
        /\ \A i \in DOMAIN output_schema :
              IF alias_project /\ AliasesOf(output_schema[i]) # {}
              THEN \A p \in AliasesOf(output_schema[i]) :
                      /\ chain[p].arg_name \in DOMAIN column_map
                      /\ result.columns[i] = column_map[chain[p].arg_name].column
              ELSE /\ output_schema[i] \in DOMAIN column_map
                   /\ result.columns[i] = column_map[output_schema[i]].column

\* f computed, aliased to y and to z, output schema [y, z]: both columns are f's.
C4_Witness ==
    /\ alias_project
    /\ chain = <<FunctionAction("f", <<"a">>, TRUE, TRUE),
                 AliasAction("y", "f"), AliasAction("z", "f")>>
    /\ output_schema = <<"y", "z">>
    /\ result.status = "ok"
    /\ result.columns = <<column_map["f"].column, column_map["f"].column>>

\* ------------------------------------------------------------------ C5
\* C5 as stated: with alias_project, a chain with two Alias actions of the same
\* target makes execute fail with the duplicate-alias error.
C5_DuplicateAliasError ==
    (pc = "done" /\ alias_project /\ DuplicateTarget) => result = Err(DuplicateAlias)

\* C5 as amended: with alias_project, a chain with two Alias actions of the same
\* target makes execute fail without an output block; the error is the
\* duplicate-alias error whenever the chain loop ended without an error and every
\* recorded alias source has a column in the working map. The duplicate-alias
\* error is returned for no other chain: fan-out to distinct targets is no error.
C5_DuplicateAliasFails ==
    /\ (pc = "done" /\ alias_project /\ DuplicateTarget) =>
          /\ result.status = "err"
          /\ result.columns = <<>>
          /\ (ChainLoopDone /\ DOMAIN alias_action_map \subseteq DOMAIN column_map) =>
                result.error = DuplicateAlias
    /\ result.error = DuplicateAlias => (alias_project /\ DuplicateTarget)

\* Two aliases of the target y from the different sources f and a, both computed:
\* the duplicate-alias error.
C5_Witness ==
    /\ pc = "done"
    /\ alias_project
    /\ chain = <<FunctionAction("f", <<"a">>, TRUE, TRUE),
                 AliasAction("y", "f"), AliasAction("y", "a")>>
    /\ result = Err(DuplicateAlias)

\* ------------------------------------------------------------------ C6
\* C6: the working map is seeded with the block's columns; afterwards no step
\* changes or removes an entry; the chain is walked in order; and an Input,
\* Function or Constant action whose name the map holds invokes no evaluator and
\* leaves the map as it is.
C6_AssignedOnce ==
    [][/\ (pc = "idle" /\ pc' # "idle") =>
            \A n \in DOMAIN block :
                n \in DOMAIN column_map' /\ column_map'[n].column = block[n]
       /\ pc # "idle" =>
            \A n \in DOMAIN column_map :
                n \in DOMAIN column_map' /\ column_map'[n] = column_map[n]
       /\ pc = "chain" =>
            /\ idx' \in {idx, idx + 1}
            /\ (/\ chain[idx].kind \in {"Input", "Function", "Constant"}
                /\ chain[idx].name \in DOMAIN column_map)
               => (evals' = evals /\ column_map' = column_map /\ idx' = idx + 1)]_vars

\* The same function twice in the chain: evaluated the first time only.
C6_Witness ==
    /\ Len(chain) >= 2
    /\ idx = 3
    /\ chain[1].kind = "Function"
    /\ chain[2] = chain[1]
    /\ Len(evals) = 1
    /\ chain[1].name \in DOMAIN column_map

\* ------------------------------------------------------------------ C7
\* The three cases of C7, the alias case's error being `aliasError(r)` of the result.
C7_Cases(AliasCase(_)) ==
    /\ (/\ pc = "chain"
        /\ chain[idx].kind = "Function"
        /\ chain[idx].name \notin DOMAIN column_map
        /\ \E j \in DOMAIN chain[idx].arg_names :
              chain[idx].arg_names[j] \notin DOMAIN column_map)
       => (pc' = "done" /\ result' = Err(ArgsNotPreparedFunction) /\ evals' = evals)
    /\ (/\ pc = "alias" /\ pc' # "alias"
        /\ \E k \in DOMAIN alias_action_map : k \notin DOMAIN column_map)
       => (/\ pc' = "done"
           /\ result'.status = "err" /\ result'.columns = <<>>
           /\ AliasCase(result'))
    /\ (/\ pc = "project"
        /\ \E i \in DOMAIN output_schema :
              output_schema[i] \notin (DOMAIN alias_map) \cup (DOMAIN column_map))
       => (pc' = "done" /\ result' = Err(ProjectionMissing))

C7_InternalError(r) == r.error.code = "LogicalError"

C7_InternalOrDuplicate(r) ==
    /\ r.error \in {ArgsNotPreparedAlias, DuplicateAlias}
    /\ ~DuplicateTarget => r.error = ArgsNotPreparedAlias

C8_OutcomeIndependentOfVisitOrder ==
    (pc = "done" /\ alias_project /\ ChainLoopDone) =>
        \A o \in Orders(DOMAIN alias_action_map) :
            LET r == AliasLoop(column_map, alias_action_map, EmptyMap, o)
            IN  IF r.ok
                THEN result = Projection(r.alias_map, column_map)
                ELSE result.status = "err" /\ result.error.code = r.error.code


\* ------------------------------------------------------------------ C11
\* C11: over an inner type other than Null, create_constant_column(value, size)
\* returns the inner type's error unchanged, or a nullable column of size rows
\* whose validity has one entry per row, each true exactly when the value is not
\* null, and whose inner column is the inner type's constant column of that size
\* built from the value, or from the inner type's default when the value is null;
\* the validity is as long as the inner column.
C11_NullableConstantColumn ==
    constant_call.inner \in InnerTypes \ {"Null"} =>
        LET payload == IF constant_call.value = "NULL"
                       THEN default_value(constant_call.inner)
                       ELSE constant_call.value
            column == InnerConstantColumn(constant_call.inner, payload, constant_call.size)
        IN  IF column.ok
            THEN /\ constant_column.status = "ok"
                 /\ constant_column.kind = "NullableColumn"
                 /\ constant_column.length = constant_call.size
                 /\ constant_column.has_bitmap
                 /\ constant_column.bitmap =
                      [i \in 1..constant_call.size |-> constant_call.value # "NULL"]
                 /\ constant_column.inner = column.column
                 /\ Len(constant_column.bitmap) = Len(constant_column.inner)
            ELSE /\ constant_column.status = "err"
                 /\ constant_column.error = column.error

\* The null value and size 3 over Int32: validity [false,false,false] over three
\* copies of Int32's default.
C11_Witness ==
    /\ constant_call = [inner |-> "Int32", value |-> "NULL", size |-> 3]
    /\ constant_column.status = "ok"
    /\ constant_column.bitmap = <<FALSE, FALSE, FALSE>>
    /\ constant_column.inner = <<"0", "0", "0">>

\* ------------------------------------------------------------------ C12
\* C12: when the chain loop reaches a function that is not is_nullable, or whose
\* evaluator does not pass null through, with its arguments in the working map,
\* that step invokes the evaluator, not invoked for it before, once on the
\* resolved argument columns, even with an entirely null argument, and stores the
\* evaluator's result as it is (or returns the evaluator's error).
C12_UnmaskedEvaluation ==
    [][(/\ pc = "chain"
        /\ chain[idx].kind = "Function"
        /\ ~(chain[idx].is_nullable /\ chain[idx].passthrough_null)
        /\ chain[idx].name \notin DOMAIN column_map
        /\ \A j \in DOMAIN chain[idx].arg_names :
              chain[idx].arg_names[j] \in DOMAIN column_map)
       => /\ \A k \in DOMAIN evals : evals[k].f.name # chain[idx].name
          /\ Len(evals') = Len(evals) + 1
          /\ SubSeq(evals', 1, Len(evals)) = evals
          /\ evals'[Len(evals')].f = chain[idx]
          /\ evals'[Len(evals')].args =
                [j \in DOMAIN chain[idx].arg_names |-> column_map[chain[idx].arg_names[j]]]
          /\ IF evals'[Len(evals')].out.ok
             THEN /\ chain[idx].name \in DOMAIN column_map'
                  /\ column_map'[chain[idx].name].column =
                        [kind |-> "Array", data |-> chain[idx].name,
                         type |-> chain[idx].return_type,
                         validity |-> evals'[Len(evals')].out.validity]
             ELSE /\ pc' = "done"
                  /\ result' = Err(EvalFailed)
                  /\ column_map' = column_map]_vars

\* An is_nullable function without null pass-through over a column a with a null
\* row and an entirely null column b: evaluated once, its fully valid result stored.
C12_Witness ==
    /\ rows = 2
    /\ chain = <<FunctionAction("f", <<"a", "b">>, TRUE, FALSE)>>
    /\ block["a"].validity = <<FALSE, TRUE>>
    /\ block["b"].validity = <<FALSE, FALSE>>
    /\ Len(evals) = 1
    /\ "f" \in DOMAIN column_map
    /\ column_map["f"].column.validity = <<TRUE, TRUE>>
    /\ result.status = "ok"

====
